---- MODULE Spec2Model ----
(***************************************************************************)
(* Model of assignment2/cs231n/classifiers/fc_net.py: the constructors and *)
(* the loss methods of TwoLayerNet and FullyConnectedNet.                  *)
(*                                                                         *)
(* Tensors are records [shape, data] with data the flattened entries.      *)
(* Parameter names 'W1', 'b1', 'gamma1', 'beta1' are the pairs <<"W", 1>>, *)
(* <<"b", 1>>, ...  Python dictionaries whose key set varies are records   *)
(* with a field keys holding the keys that are present.                    *)
(* loss is modelled statement group by statement group, pc being the       *)
(* position inside the call; fwd and bwd record the layer primitives the   *)
(* call has invoked so far, in order.                                      *)
(***************************************************************************)
EXTENDS Integers, Sequences, FiniteSets, TLC

\* ---------------------------------------------------------------- bounds
\* largest dimension handed to a constructor
MaxDim == 2
\* largest number of hidden layers handed to FullyConnectedNet
MaxHidden == 2

\* ---------------------------------------------------------------- inputs
None == "None"
\* "groupnorm" stands for any string other than the two the loss recognises
Normalizations == {None, "batchnorm", "layernorm", "groupnorm"}
\* dimensions: negative, zero and positive
Dims == (0 - 1)..MaxDim
\* reg; even values keep 0.5 * reg * reg_sum an integer
Regs == {0, 2}
\* dropout, in percent: 100 is dropout=1 (no dropout), 50 is dropout=0.5
Dropouts == {100, 50}
\* seed: None or 0
Seeds == {None, "0"}
\* state of numpy's global random generator when the constructor runs
RngStates == {0, 1}

RECURSIVE SeqsUpTo(_, _)
SeqsUpTo(S, n) ==
    IF n = 0 THEN {<<>>}
    ELSE LET shorter == SeqsUpTo(S, n - 1)
         IN shorter \cup {Append(s, x) : s \in {t \in shorter : Len(t) = n - 1}, x \in S}

\* ---------------------------------------------------------------- tensors
RECURSIVE Prod(_)
Prod(shape) == IF shape = <<>> THEN 1 ELSE Head(shape) * Prod(Tail(shape))

\* numpy refuses to allocate an array with a negative dimension (ValueError)
NeverNegative(shape) == FALSE
NegativeDimensions(shape) == \E k \in 1..Len(shape) : shape[k] < 0

\* np.random.normal(scale=weight_scale, size=shape): entries drawn from the
\* generator, here a function of its state, the layer and the position
Normal(rng, layer, shape) ==
    [shape |-> shape,
     data  |-> [k \in 1..Prod(shape) |-> ((rng + layer + k) % 3) - 1]]

Ones(n) == [shape |-> <<n>>, data |-> [k \in 1..n |-> 1]]
Zeros(n) == [shape |-> <<n>>, data |-> [k \in 1..n |-> 0]]

RECURSIVE SumSeq(_)
SumSeq(s) == IF s = <<>> THEN 0 ELSE Head(s) + SumSeq(Tail(s))

\* np.sum(W ** 2)
SumSq(W) == SumSeq([k \in 1..Len(W.data) |-> W.data[k] * W.data[k]])

\* dW + reg * W, elementwise
AddScaled(dW, r, W) ==
    [shape |-> dW.shape,
     data  |-> [k \in 1..Len(dW.data) |-> dW.data[k] + r * W.data[k]]]

\* ---------------------------------------------------------------- dictionaries
EmptyDict == [k \in {} |-> 0]
Put(d, key, v) == [k \in (DOMAIN d) \cup {key} |-> IF k = key THEN v ELSE d[k]]

\* ---------------------------------------------------------------- state
VARIABLES
    net,            \* class of the constructed object, "none" before construction
    args,           \* arguments of the constructor call
    error,          \* exception the constructor call ended with, "none" otherwise
    params,         \* self.params
    reg,            \* self.reg
    normalization,  \* self.normalization
    use_dropout,    \* self.use_dropout
    num_layers,     \* self.num_layers
    dropout_param,  \* self.dropout_param
    bn_params,      \* self.bn_params
    pc,             \* position inside loss, "idle" between calls
    y,              \* argument y of the running call: None or labels
    mode,           \* local mode of the running call
    i,              \* local i
    it,             \* position of `for cache in reversed(caches)`
    cur_layer,      \* local cur_layer: the stage that produced it
    out_i,          \* local out_i: the stage that produced it
    caches, bnorm_caches, drop_caches, cache_last,
    reg_sum,        \* local reg_sum
    data_loss,      \* loss as returned by softmax_loss
    loss,           \* local loss
    data_grads,     \* dW, db, dGamma, dBeta as returned by the backward primitives
    grads,          \* local grads
    fwd,            \* forward primitives invoked by the call, in order
    bwd,            \* backward primitives invoked by the call, in order
    result          \* what the last finished call returned

selfvars == <<net, args, error, params, reg, normalization, use_dropout, num_layers>>
dictvars == <<dropout_param, bn_params>>
fwdlocals == <<cur_layer, out_i, caches, bnorm_caches, drop_caches, cache_last, reg_sum>>
bwdlocals == <<data_loss, loss, data_grads, grads>>
vars == <<selfvars, dictvars, pc, y, mode, i, it, fwdlocals, bwdlocals, fwd, bwd, result>>

NoArgs == [cls |-> "none", hidden_dims |-> <<>>, input_dim |-> 1, num_classes |-> 1]
NoResult == [kind |-> "none", scores |-> [stage |-> "none", layer |-> 0],
             loss |-> 0, grads |-> EmptyDict]
NoDropoutParam == [keys |-> {}, mode |-> "none", p |-> 100, seed |-> None]
XToken == [stage |-> "X", layer |-> 0]
NoToken == [stage |-> "none", layer |-> 0]

LocalsInit ==
    /\ pc = "idle" /\ y = None /\ mode = "none" /\ i = 0 /\ it = 0
    /\ cur_layer = NoToken /\ out_i = NoToken
    /\ caches = <<>> /\ bnorm_caches = <<>> /\ drop_caches = <<>>
    /\ cache_last = NoToken
    /\ reg_sum = 0 /\ data_loss = 0 /\ loss = 0
    /\ data_grads = EmptyDict /\ grads = EmptyDict
    /\ fwd = <<>> /\ bwd = <<>>

Init ==
    /\ net = "none" /\ args = NoArgs /\ error = "none"
    /\ params = EmptyDict /\ reg = 0 /\ normalization = None
    /\ use_dropout = FALSE /\ num_layers = 0
    /\ dropout_param = NoDropoutParam /\ bn_params = <<>>
    /\ LocalsInit
    /\ result = NoResult

\* ---------------------------------------------------------------- constructors
\* `self.normalization is not None`: the layer gets gamma and beta
OnlyBatchnormHasScaleShift(norm) == norm = "batchnorm"
HasScaleShift(norm) == norm # None

\* the loop over hidden_dims of FullyConnectedNet.__init__; raised is set when
\* an allocation fails, and the loop stops there
RECURSIVE InitHidden(_, _, _, _, _, _)
InitHidden(hidden_dims, prev_dim, cur, norm, rng, p) ==
    IF hidden_dims = <<>>
    THEN [raised |-> FALSE, params |-> p, prev_dim |-> prev_dim, cur_layer |-> cur]
    ELSE LET d == Head(hidden_dims)
             p1 == Put(Put(p, <<"W", cur>>, Normal(rng, cur, <<prev_dim, d>>)),
                       <<"b", cur>>, Zeros(d))
             p2 == IF HasScaleShift(norm)
                   THEN Put(Put(p1, <<"gamma", cur>>, Ones(d)), <<"beta", cur>>, Zeros(d))
                   ELSE p1
         IN IF NegativeDimensions(<<prev_dim, d>>)
            THEN [raised |-> TRUE, params |-> p, prev_dim |-> prev_dim, cur_layer |-> cur]
            ELSE InitHidden(Tail(hidden_dims), d, cur + 1, norm, rng, p2)

\* the whole parameter initialisation of FullyConnectedNet.__init__
InitParams(hidden_dims, input_dim, num_classes, norm, rng) ==
    LET h == InitHidden(hidden_dims, input_dim, 1, norm, rng, EmptyDict)
        cur == h.cur_layer
    IN IF h.raised \/ NegativeDimensions(<<h.prev_dim, num_classes>>)
       THEN [raised |-> TRUE, params |-> EmptyDict]
       ELSE [raised |-> FALSE,
             params |-> Put(Put(h.params,
                                <<"W", cur>>, Normal(rng, cur, <<h.prev_dim, num_classes>>)),
                            <<"b", cur>>, Zeros(num_classes))]

\* self.dropout_param after construction
InitDropoutParam(dropout, seed) ==
    IF dropout # 100
    THEN [keys |-> IF seed # None THEN {"mode", "p", "seed"} ELSE {"mode", "p"},
          mode |-> "train", p |-> dropout, seed |-> seed]
    ELSE NoDropoutParam

\* self.bn_params after construction
InitBnParams(norm, n) ==
    IF norm = "batchnorm" THEN [k \in 1..(n - 1) |-> [keys |-> {"mode"}, mode |-> "train"]]
    ELSE IF norm = "layernorm" THEN [k \in 1..(n - 1) |-> [keys |-> {}, mode |-> "none"]]
    ELSE <<>>

FullyConnectedNetInit ==
    /\ args.cls = "none"
    /\ \E hidden_dims \in SeqsUpTo(Dims, MaxHidden), input_dim \in Dims, num_classes \in Dims,
          dropout \in Dropouts, norm \in Normalizations, r \in Regs,
          seed \in Seeds, rng \in RngStates :
        LET ip == InitParams(hidden_dims, input_dim, num_classes, norm, rng)
        IN /\ args' = [cls |-> "FullyConnectedNet", hidden_dims |-> hidden_dims,
                       input_dim |-> input_dim, num_classes |-> num_classes]
           /\ IF ip.raised
              THEN /\ error' = "ValueError"
                   /\ UNCHANGED <<net, params, reg, normalization, use_dropout,
                                  num_layers, dictvars>>
              ELSE /\ net' = "FullyConnectedNet"
                   /\ error' = "none"
                   /\ normalization' = norm
                   /\ use_dropout' = (dropout # 100)
                   /\ reg' = r
                   /\ num_layers' = 1 + Len(hidden_dims)
                   /\ params' = ip.params
                   /\ dropout_param' = InitDropoutParam(dropout, seed)
                   /\ bn_params' = InitBnParams(norm, 1 + Len(hidden_dims))
    /\ UNCHANGED <<pc, y, mode, i, it, fwdlocals, bwdlocals, fwd, bwd, result>>

TwoLayerNetInit ==
    /\ args.cls = "none"
    /\ \E input_dim \in Dims, hidden_dim \in Dims, num_classes \in Dims,
          r \in Regs, rng \in RngStates :
        /\ args' = [cls |-> "TwoLayerNet", hidden_dims |-> <<hidden_dim>>,
                    input_dim |-> input_dim, num_classes |-> num_classes]
        /\ IF \/ NegativeDimensions(<<input_dim, hidden_dim>>)
              \/ NegativeDimensions(<<hidden_dim, num_classes>>)
           THEN /\ error' = "ValueError"
                /\ UNCHANGED <<net, params, reg, num_layers>>
           ELSE /\ net' = "TwoLayerNet"
                /\ error' = "none"
                /\ reg' = r
                /\ num_layers' = 2
                /\ params' = Put(Put(Put(Put(EmptyDict,
                                 <<"W", 1>>, Normal(rng, 1, <<input_dim, hidden_dim>>)),
                                 <<"b", 1>>, Zeros(hidden_dim)),
                                 <<"W", 2>>, Normal(rng, 2, <<hidden_dim, num_classes>>)),
                                 <<"b", 2>>, Zeros(num_classes))
    /\ UNCHANGED <<normalization, use_dropout, dictvars>>
    /\ UNCHANGED <<pc, y, mode, i, it, fwdlocals, bwdlocals, fwd, bwd, result>>

\* ---------------------------------------------------------------- layer primitives
\* The primitives live in cs231n/layers.py and cs231n/layer_utils.py.  A forward
\* primitive returns (out, cache); out and cache are named after the stage and
\* the layer that produced them.  A backward primitive returns gradients shaped
\* like the parameters of its layer.
Stage(kind, layer) == [stage |-> kind, layer |-> layer]
Call(kind, layer, x) == [stage |-> kind, layer |-> layer, input |-> x]
Undo(kind, layer, cache) == [stage |-> kind, layer |-> layer, cache |-> cache]

\* affine_forward(x, w, b)
affine_forward(x, layer) ==
    [out |-> Stage("affine", layer), cache |-> Stage("affine", layer),
     calls |-> <<Call("affine", layer, x)>>]

\* affine_relu_forward(x, w, b): affine_forward, then relu_forward on its output;
\* the cache is the pair (fc_cache, relu_cache)
affine_relu_forward(x, layer) ==
    [out |-> Stage("relu", layer),
     cache |-> [fc |-> Stage("affine", layer), relu |-> Stage("relu", layer)],
     calls |-> <<Call("affine", layer, x), Call("relu", layer, Stage("affine", layer))>>]

\* batchnorm_forward / layernorm_forward / dropout_forward
stage_forward(kind, x, layer) ==
    [out |-> Stage(kind, layer), cache |-> Stage(kind, layer),
     calls |-> <<Call(kind, layer, x)>>]

\* affine_relu_backward(dout, cache): relu_backward with relu_cache, then
\* affine_backward with fc_cache
affine_relu_backward(layer, cache) ==
    <<Undo("relu", layer, cache.relu), Undo("affine", layer, cache.fc)>>

\* a gradient returned by a backward primitive: shaped like the parameter, and
\* independent of reg, which no primitive receives
GradLike(P) == [shape |-> P.shape, data |-> [k \in 1..Len(P.data) |-> 1]]

\* softmax_loss(scores, y): the data loss
softmax_loss(scores) == scores.layer

\* ---------------------------------------------------------------- FullyConnectedNet.loss
\* The primitives are only defined on non-empty tensors: loss is called on
\* networks whose dimensions are all positive.
Callable == \A key \in DOMAIN params :
                \A k \in 1..Len(params[key].shape) : params[key].shape[k] > 0

\* lines 253-254: every bn_param gets the mode of the call
SetFirstMode(bn, m) == [k \in DOMAIN bn |-> IF k = 1 THEN [bn[k] EXCEPT !.mode = m] ELSE bn[k]]
SetModes(bn, m) == [k \in DOMAIN bn |-> [bn[k] EXCEPT !.mode = m]]

\* lines 245-274
Loss ==
    /\ net = "FullyConnectedNet" /\ pc = "idle" /\ Callable
    /\ \E labels \in {None, "labels"} :
        LET m == IF labels = None THEN "test" ELSE "train"
        IN /\ y' = labels
           /\ mode' = m
           /\ dropout_param' = IF use_dropout THEN [dropout_param EXCEPT !.mode = m]
                               ELSE dropout_param
           /\ bn_params' = IF normalization = "batchnorm" THEN SetModes(bn_params, m)
                           ELSE bn_params
    /\ caches' = <<>> /\ bnorm_caches' = <<>> /\ drop_caches' = <<>>
    /\ cur_layer' = XToken
    /\ reg_sum' = 0
    /\ i' = 1
    /\ fwd' = <<>> /\ bwd' = <<>>
    /\ pc' = "forward_loop"
    /\ UNCHANGED <<selfvars, it, out_i, cache_last, bwdlocals, result>>

\* lines 276-280
ForwardAffineRelu ==
    /\ net = "FullyConnectedNet" /\ pc = "forward_loop"
    /\ Len(caches) < num_layers - 1
    /\ LET f == affine_relu_forward(cur_layer, i)
       IN /\ out_i' = f.out
          /\ caches' = Append(caches, f.cache)
          /\ fwd' = fwd \o f.calls
    /\ reg_sum' = reg_sum + SumSq(params[<<"W", i>>])
    /\ pc' = "forward_norm"
    /\ UNCHANGED <<selfvars, dictvars, y, mode, i, it, cur_layer, bnorm_caches,
                   drop_caches, cache_last, bwdlocals, bwd, result>>

\* lines 282-289
ForwardNorm ==
    /\ net = "FullyConnectedNet" /\ pc = "forward_norm"
    /\ IF normalization \in {"batchnorm", "layernorm"}
       THEN LET f == stage_forward(normalization, out_i, i)
            IN /\ out_i' = f.out
               /\ bnorm_caches' = Append(bnorm_caches, f.cache)
               /\ fwd' = fwd \o f.calls
       ELSE UNCHANGED <<out_i, bnorm_caches, fwd>>
    /\ pc' = "forward_dropout"
    /\ UNCHANGED <<selfvars, dictvars, y, mode, i, it, cur_layer, caches,
                   drop_caches, cache_last, reg_sum, bwdlocals, bwd, result>>

\* lines 291-296
ForwardDropout ==
    /\ net = "FullyConnectedNet" /\ pc = "forward_dropout"
    /\ LET f == stage_forward("dropout", out_i, i)
           out == IF use_dropout THEN f.out ELSE out_i
       IN /\ IF use_dropout
             THEN /\ drop_caches' = Append(drop_caches, f.cache)
                  /\ fwd' = fwd \o f.calls
             ELSE UNCHANGED <<drop_caches, fwd>>
          /\ out_i' = out
          /\ cur_layer' = out
    /\ i' = i + 1
    /\ pc' = "forward_loop"
    /\ UNCHANGED <<selfvars, dictvars, y, mode, it, caches, bnorm_caches,
                   cache_last, reg_sum, bwdlocals, bwd, result>>

\* lines 298-300
ForwardLast ==
    /\ net = "FullyConnectedNet" /\ pc = "forward_loop"
    /\ Len(caches) = num_layers - 1
    /\ LET f == affine_forward(cur_layer, i)
       IN /\ cur_layer' = f.out
          /\ cache_last' = f.cache
          /\ fwd' = fwd \o f.calls
    /\ pc' = "test_return"
    /\ UNCHANGED <<selfvars, dictvars, y, mode, i, it, out_i, caches, bnorm_caches,
                   drop_caches, reg_sum, bwdlocals, bwd, result>>

\* the locals of a call die when it returns
Discard ==
    /\ y' = None /\ mode' = "none" /\ i' = 0 /\ it' = 0
    /\ cur_layer' = NoToken /\ out_i' = NoToken
    /\ caches' = <<>> /\ bnorm_caches' = <<>> /\ drop_caches' = <<>>
    /\ cache_last' = NoToken
    /\ reg_sum' = 0 /\ data_loss' = 0 /\ loss' = 0
    /\ data_grads' = EmptyDict /\ grads' = EmptyDict

\* lines 308-309 without the early return: the call goes on to the backward pass
ReturnScoresFallsThrough ==
    /\ net = "FullyConnectedNet" /\ pc = "test_return" /\ mode = "test"
    /\ data_loss' = softmax_loss(cur_layer)
    /\ loss' = softmax_loss(cur_layer) + (reg * reg_sum) \div 2
    /\ grads' = EmptyDict /\ data_grads' = EmptyDict
    /\ pc' = "backward_last"
    /\ UNCHANGED <<selfvars, dictvars, y, mode, i, it, fwdlocals, fwd, bwd, result>>

\* lines 308-309
ReturnScores ==
    /\ net = "FullyConnectedNet" /\ pc = "test_return" /\ mode = "test"
    /\ result' = [NoResult EXCEPT !.kind = "scores", !.scores = cur_layer]
    /\ Discard
    /\ pc' = "idle"
    /\ UNCHANGED <<selfvars, dictvars, fwd, bwd>>

\* lines 308, 311, 326-327
SoftmaxLoss ==
    /\ net = "FullyConnectedNet" /\ pc = "test_return" /\ mode # "test"
    /\ data_loss' = softmax_loss(cur_layer)
    /\ loss' = softmax_loss(cur_layer) + (reg * reg_sum) \div 2
    /\ grads' = EmptyDict /\ data_grads' = EmptyDict
    /\ pc' = "backward_last"
    /\ UNCHANGED <<selfvars, dictvars, y, mode, i, it, fwdlocals, fwd, bwd, result>>

\* lines 329-331, and the start of the loop of line 333
BackwardLast ==
    /\ net = "FullyConnectedNet" /\ pc = "backward_last"
    /\ LET dW_last == GradLike(params[<<"W", i>>])
           db_last == GradLike(params[<<"b", i>>])
       IN /\ data_grads' = Put(Put(data_grads, <<"W", i>>, dW_last), <<"b", i>>, db_last)
          /\ grads' = Put(Put(grads, <<"W", i>>, dW_last), <<"b", i>>, db_last)
    /\ bwd' = Append(bwd, Undo("affine", i, cache_last))
    /\ i' = i - 1
    /\ it' = 1
    /\ pc' = "backward_loop"
    /\ UNCHANGED <<selfvars, dictvars, y, mode, fwdlocals, data_loss, loss, fwd, result>>

\* reversed(caches)
NotReversed(s) == s
Reversed(s) == [k \in 1..Len(s) |-> s[Len(s) + 1 - k]]

\* lines 333-335; drop_caches[i-1] of the source is drop_caches[i] here
BackwardDropout ==
    /\ net = "FullyConnectedNet" /\ pc = "backward_loop"
    /\ it <= Len(caches)
    /\ IF use_dropout
       THEN bwd' = Append(bwd, Undo("dropout", i, drop_caches[i]))
       ELSE UNCHANGED bwd
    /\ pc' = "backward_norm"
    /\ UNCHANGED <<selfvars, dictvars, y, mode, i, it, fwdlocals, bwdlocals, fwd, result>>

\* lines 337-342; batchnorm_backward_alt undoes batchnorm_forward
BackwardNorm ==
    /\ net = "FullyConnectedNet" /\ pc = "backward_norm"
    /\ IF normalization \in {"batchnorm", "layernorm"}
       THEN LET dGamma_i == GradLike(params[<<"gamma", i>>])
                dBeta_i == GradLike(params[<<"beta", i>>])
            IN /\ bwd' = Append(bwd, Undo(normalization, i, bnorm_caches[i]))
               /\ data_grads' = Put(Put(data_grads, <<"gamma", i>>, dGamma_i),
                                    <<"beta", i>>, dBeta_i)
               /\ grads' = Put(Put(grads, <<"gamma", i>>, dGamma_i), <<"beta", i>>, dBeta_i)
       ELSE UNCHANGED <<bwd, data_grads, grads>>
    /\ pc' = "backward_affine"
    /\ UNCHANGED <<selfvars, dictvars, y, mode, i, it, fwdlocals, data_loss, loss,
                   fwd, result>>

\* lines 344-347 with the regularised gradient accumulated in place into
\* self.params instead of a fresh array
BackwardAffineReluInPlace ==
    /\ net = "FullyConnectedNet" /\ pc = "backward_affine"
    /\ LET cache == Reversed(caches)[it]
           dW_i == GradLike(params[<<"W", i>>])
           db_i == GradLike(params[<<"b", i>>])
           sum == AddScaled(dW_i, reg, params[<<"W", i>>])
       IN /\ bwd' = bwd \o affine_relu_backward(i, cache)
          /\ data_grads' = Put(Put(data_grads, <<"W", i>>, dW_i), <<"b", i>>, db_i)
          /\ params' = Put(params, <<"W", i>>, sum)
          /\ grads' = Put(Put(grads, <<"W", i>>, sum), <<"b", i>>, db_i)
    /\ i' = i - 1
    /\ it' = it + 1
    /\ pc' = "backward_loop"
    /\ UNCHANGED <<net, args, error, reg, normalization, use_dropout, num_layers,
                   dictvars, y, mode, fwdlocals, data_loss, loss, fwd, result>>

\* lines 344-347
BackwardAffineRelu ==
    /\ net = "FullyConnectedNet" /\ pc = "backward_affine"
    /\ LET cache == Reversed(caches)[it]
           dW_i == GradLike(params[<<"W", i>>])
           db_i == GradLike(params[<<"b", i>>])
       IN /\ bwd' = bwd \o affine_relu_backward(i, cache)
          /\ data_grads' = Put(Put(data_grads, <<"W", i>>, dW_i), <<"b", i>>, db_i)
          /\ grads' = Put(Put(grads, <<"W", i>>, AddScaled(dW_i, reg, params[<<"W", i>>])),
                          <<"b", i>>, db_i)
    /\ i' = i - 1
    /\ it' = it + 1
    /\ pc' = "backward_loop"
    /\ UNCHANGED <<selfvars, dictvars, y, mode, fwdlocals, data_loss, loss, fwd, result>>

\* line 333 exhausted
BackwardDone ==
    /\ net = "FullyConnectedNet" /\ pc = "backward_loop"
    /\ it > Len(caches)
    /\ pc' = "return"
    /\ UNCHANGED <<selfvars, dictvars, y, mode, i, it, fwdlocals, bwdlocals, fwd, bwd, result>>

\* line 354
ReturnLossGrads ==
    /\ net = "FullyConnectedNet" /\ pc = "return"
    /\ result' = [NoResult EXCEPT !.kind = "loss_grads", !.loss = loss, !.grads = grads]
    /\ Discard
    /\ pc' = "idle"
    /\ UNCHANGED <<selfvars, dictvars, fwd, bwd>>

\* ---------------------------------------------------------------- TwoLayerNet.loss
\* lines 80-88; cache1 is kept in caches, cache2 in cache_last
TwoLayerForward ==
    /\ net = "TwoLayerNet" /\ pc = "idle" /\ Callable
    /\ \E labels \in {None, "labels"} : y' = labels
    /\ LET f1 == affine_relu_forward(XToken, 1)
           f2 == affine_forward(f1.out, 2)
       IN /\ out_i' = f1.out
          /\ caches' = <<f1.cache>>
          /\ cache_last' = f2.cache
          /\ cur_layer' = f2.out
          /\ fwd' = f1.calls \o f2.calls
    /\ bwd' = <<>>
    /\ pc' = "two_test_return"
    /\ UNCHANGED <<selfvars, dictvars, mode, i, it, bnorm_caches, drop_caches,
                   reg_sum, bwdlocals, result>>

\* lines 95-96
TwoLayerReturnScores ==
    /\ net = "TwoLayerNet" /\ pc = "two_test_return" /\ y = None
    /\ result' = [NoResult EXCEPT !.kind = "scores", !.scores = cur_layer]
    /\ Discard
    /\ pc' = "idle"
    /\ UNCHANGED <<selfvars, dictvars, fwd, bwd>>

\* lines 95, 98, 110-119
TwoLayerBackward ==
    /\ net = "TwoLayerNet" /\ pc = "two_test_return" /\ y # None
    /\ data_loss' = softmax_loss(cur_layer)
    /\ loss' = softmax_loss(cur_layer)
                 + (reg * (SumSq(params[<<"W", 1>>]) + SumSq(params[<<"W", 2>>]))) \div 2
    /\ bwd' = <<Undo("affine", 2, cache_last)>> \o affine_relu_backward(1, caches[1])
    /\ LET dW2 == GradLike(params[<<"W", 2>>])
           db2 == GradLike(params[<<"b", 2>>])
           dW1 == GradLike(params[<<"W", 1>>])
           db1 == GradLike(params[<<"b", 1>>])
       IN /\ data_grads' = Put(Put(Put(Put(EmptyDict, <<"W", 2>>, dW2), <<"b", 2>>, db2),
                                   <<"W", 1>>, dW1), <<"b", 1>>, db1)
          /\ grads' = Put(Put(Put(Put(EmptyDict,
                          <<"W", 2>>, AddScaled(dW2, reg, params[<<"W", 2>>])),
                          <<"b", 2>>, db2),
                          <<"W", 1>>, AddScaled(dW1, reg, params[<<"W", 1>>])),
                          <<"b", 1>>, db1)
    /\ pc' = "two_return"
    /\ UNCHANGED <<selfvars, dictvars, y, mode, i, it, fwdlocals, fwd, result>>

\* line 126
TwoLayerReturnLossGrads ==
    /\ net = "TwoLayerNet" /\ pc = "two_return"
    /\ result' = [NoResult EXCEPT !.kind = "loss_grads", !.loss = loss, !.grads = grads]
    /\ Discard
    /\ pc' = "idle"
    /\ UNCHANGED <<selfvars, dictvars, fwd, bwd>>

Next ==
    \/ FullyConnectedNetInit \/ TwoLayerNetInit
    \/ Loss \/ ForwardAffineRelu \/ ForwardNorm \/ ForwardDropout \/ ForwardLast
    \/ ReturnScores \/ SoftmaxLoss \/ BackwardLast \/ BackwardDropout \/ BackwardNorm
    \/ BackwardAffineRelu \/ BackwardDone \/ ReturnLossGrads
    \/ TwoLayerForward \/ TwoLayerReturnScores \/ TwoLayerBackward
    \/ TwoLayerReturnLossGrads

Spec == Init /\ [][Next]_vars

\* ---------------------------------------------------------------- properties
FCN == net = "FullyConnectedNet"
\* number of hidden layers
L == num_layers - 1
\* d_0 .. d_{L+1} of the constructor call, as a sequence starting at index 1
ArgDims == <<args.input_dim>> \o args.hidden_dims \o <<args.num_classes>>
WKeys == {<<"W", k>> : k \in 1..num_layers} \cup {<<"b", k>> : k \in 1..num_layers}
NormKeys == {<<"gamma", k>> : k \in 1..L} \cup {<<"beta", k>> : k \in 1..L}

RECURSIVE SumSqUpTo(_)
SumSqUpTo(n) == IF n = 0 THEN 0 ELSE SumSq(params[<<"W", n>>]) + SumSqUpTo(n - 1)

C2_RegularizesEveryWeight ==
    (FCN /\ pc = "return") => loss = data_loss + (reg * SumSqUpTo(num_layers)) \div 2

\* C3: with labels, for every layer 1..L+1 the returned gradient of W_i is the
\* gradient the backward primitive returned plus reg * W_i.
C3_EveryWeightGradHasRegTerm ==
    (FCN /\ pc = "return") =>
        \A k \in 1..num_layers :
            grads[<<"W", k>>] = AddScaled(data_grads[<<"W", k>>], reg, params[<<"W", k>>])

\* C4: in the forward pass every hidden layer runs affine, then normalization,
\* then relu, then dropout (those that are enabled), relu taking the normalized
\* output; the last stage is the single plain affine of layer L+1.
Rank(kind) ==
    CASE kind = "affine" -> 1
      [] kind \in {"batchnorm", "layernorm"} -> 2
      [] kind = "relu" -> 3
      [] kind = "dropout" -> 4
      [] OTHER -> 0
C4_AffineNormReluDropout ==
    (FCN /\ pc = "test_return") =>
        /\ \A a, b \in 1..Len(fwd) :
              (fwd[a].layer = fwd[b].layer /\ Rank(fwd[a].stage) < Rank(fwd[b].stage))
                  => a < b
        /\ \A a \in 1..Len(fwd) :
              (fwd[a].stage = "relu" /\ normalization \in {"batchnorm", "layernorm"})
                  => fwd[a].input = Stage(normalization, fwd[a].layer)
        /\ fwd[Len(fwd)].stage = "affine" /\ fwd[Len(fwd)].layer = num_layers
        /\ \A a \in 1..(Len(fwd) - 1) : fwd[a].layer \in 1..L

\* C5: during every call of FullyConnectedNet.loss, from before its first
\* forward stage on, mode is 'test' when y is None and 'train' otherwise, and
\* dropout_param['mode'] (with dropout) and every bn_param['mode'] (with
\* batchnorm) equal it, whatever earlier calls left behind.
C5_ModesFollowTheCall ==
    (FCN /\ pc # "idle") =>
        /\ mode = (IF y = None THEN "test" ELSE "train")
        /\ use_dropout => ("mode" \in dropout_param.keys /\ dropout_param.mode = mode)
        /\ normalization = "batchnorm" =>
              \A k \in DOMAIN bn_params : bn_params[k].mode = mode
C5_Witness ==
    /\ FCN /\ pc = "forward_loop" /\ fwd = <<>>
    /\ y = None /\ result.kind = "loss_grads"
    /\ use_dropout /\ normalization = "batchnorm" /\ Len(bn_params) = 2

\* C6: a call without labels never reaches the backward pass, produces no loss
\* and no gradient map, returns the scores alone, and leaves no cache behind.
C6_TestCallReturnsScoresOnly ==
    /\ (pc # "idle" /\ y = None) =>
          /\ pc \in {"forward_loop", "forward_norm", "forward_dropout", "test_return",
                     "two_test_return"}
          /\ bwd = <<>> /\ grads = EmptyDict /\ data_grads = EmptyDict
    /\ (pc = "idle" /\ result.kind = "scores") =>
          /\ result.grads = EmptyDict /\ result.loss = 0
          /\ result.scores = Stage("affine", num_layers)
          /\ bwd = <<>>
          /\ caches = <<>> /\ bnorm_caches = <<>> /\ drop_caches = <<>>
          /\ cache_last = NoToken
C6_Witness ==
    /\ FCN /\ pc = "idle" /\ result.kind = "scores"
    /\ Len(fwd) = 9 /\ use_dropout /\ normalization = "layernorm"

\* C7 as stated: construction fails, and produces no parameter store, whenever
\* a dimension is <= 0.
C7_FailsOnNonPositiveDimension ==
    (args.cls # "none" /\ \E k \in 1..Len(ArgDims) : ArgDims[k] <= 0) =>
        (error # "none" /\ net = "none" /\ params = EmptyDict)
\* C7 amended: construction fails (with numpy's ValueError), and produces no
\* parameter store, exactly when a dimension is negative; a dimension of 0 is
\* accepted.
C7_FailsExactlyOnNegativeDimension ==
    (args.cls # "none") =>
        /\ (\E k \in 1..Len(ArgDims) : ArgDims[k] < 0)
              <=> (error = "ValueError" /\ net = "none" /\ params = EmptyDict)
        /\ (error = "none") <=> (net = args.cls)
C7_Witness ==
    /\ args.cls = "FullyConnectedNet" /\ error = "ValueError"
    /\ Len(args.hidden_dims) = 2
    /\ args.input_dim > 0 /\ args.hidden_dims[1] > 0 /\ args.hidden_dims[2] < 0

\* C8: after construction self.params holds exactly W_i of shape (d_{i-1}, d_i)
\* and a zero b_i of length d_i for i = 1..L+1, plus gamma_i of ones and beta_i
\* of zeros of length d_i for i = 1..L iff normalization is not None.
C8_ParamsAfterConstruction ==
    FCN =>
        /\ num_layers = Len(args.hidden_dims) + 1
        /\ DOMAIN params = WKeys \cup (IF normalization # None THEN NormKeys ELSE {})
        /\ \A k \in 1..num_layers :
              /\ params[<<"W", k>>].shape = <<ArgDims[k], ArgDims[k + 1]>>
              /\ Len(params[<<"W", k>>].data) = ArgDims[k] * ArgDims[k + 1]
              /\ params[<<"b", k>>].shape = <<ArgDims[k + 1]>>
              /\ params[<<"b", k>>].data = [j \in 1..ArgDims[k + 1] |-> 0]
        /\ normalization # None =>
              \A k \in 1..L :
                  /\ params[<<"gamma", k>>].shape = <<ArgDims[k + 1]>>
                  /\ params[<<"gamma", k>>].data = [j \in 1..ArgDims[k + 1] |-> 1]
                  /\ params[<<"beta", k>>].shape = <<ArgDims[k + 1]>>
                  /\ params[<<"beta", k>>].data = [j \in 1..ArgDims[k + 1] |-> 0]
C8_Witness ==
    /\ FCN /\ pc = "idle" /\ result.kind = "none"
    /\ Len(args.hidden_dims) = 2 /\ args.hidden_dims[1] # args.hidden_dims[2]
    /\ normalization = "groupnorm"

\* C9: no step of a loss call changes self.params, its key set, or any other
\* attribute of the network than dropout_param and bn_params.
C9_LossLeavesParamsAlone ==
    [][net # "none" =>
          /\ params' = params /\ net' = net /\ reg' = reg
          /\ normalization' = normalization /\ use_dropout' = use_dropout
          /\ num_layers' = num_layers]_vars
C9_Witness ==
    /\ FCN /\ pc = "return" /\ result.kind = "scores"
    /\ reg # 0 /\ num_layers = 3 /\ dropout_param.mode = "train"

\* C10: with labels, the backward stages are the forward stages of the call in
\* exactly the reverse order, each with the cache its forward stage produced,
\* so every forward cache is consumed exactly once.
C10_BackwardIsForwardReversed ==
    (FCN /\ pc = "return") =>
        /\ Len(bwd) = Len(fwd)
        /\ bwd[1].stage = "affine" /\ bwd[1].layer = num_layers
        /\ \A k \in 1..Len(bwd) :
              LET f == fwd[Len(fwd) + 1 - k]
              IN /\ bwd[k].stage = f.stage
                 /\ bwd[k].layer = f.layer
                 /\ bwd[k].cache = Stage(f.stage, f.layer)
C10_Witness ==
    /\ FCN /\ pc = "return" /\ num_layers = 3
    /\ use_dropout /\ normalization = "batchnorm" /\ Len(bwd) = 9

====
